---- MODULE Spec2Model ----
(***************************************************************************)
(* Model of tools/vly_keygen.py: the offline VLY key/address generator.    *)
(*                                                                         *)
(* Bytes objects are sequences over 0..255 and strings are sequences of    *)
(* one-character strings.  A Python int is unbounded, TLC's integers are   *)
(* not, so an int is held as its base-256 digits, most significant first   *)
(* and with no leading zero digit (zero is the empty sequence); divmod by  *)
(* 58 is long division over those digits.                                  *)
(*                                                                         *)
(* hashlib, ecdsa and bech32 are libraries outside the repository.  The    *)
(* two digests are stand-ins with the right output length (32 and 20       *)
(* bytes) that depend on every input byte and its position; the curve is   *)
(* a nondeterministic choice of key and point; convertbits and             *)
(* bech32_encode follow the bech32 package (the BIP-173 reference code).   *)
(***************************************************************************)
EXTENDS Integers, Sequences, FiniteSets, TLC

VARIABLES
    pc,             \* where the run is: a statement of main(), or a call under test
    exc,            \* the exception that ended the run, "none" while there is none
    priv,           \* main: sk.to_string()
    px, py,         \* main: the public point's coordinates
    pub_compressed, \* main
    h160,           \* main
    data,           \* main: the 5-bit groups
    bech32_addr,    \* main
    stdout,         \* the lines printed so far
    privkey_bytes,  \* the argument of a to_wif call under test
    compressed,     \* its flag
    b58_in,         \* the byte string of a base58 step under test
    ret             \* what the call under test returned

vars == <<pc, exc, priv, px, py, pub_compressed, h160, data, bech32_addr, stdout,
          privkey_bytes, compressed, b58_in, ret>>

mainVars == <<priv, px, py, pub_compressed, h160, data, bech32_addr, stdout>>
callVars == <<privkey_bytes, compressed, b58_in, ret>>

(***************************************************************************)
(* Bounds of the explored inputs.                                          *)
(***************************************************************************)
\* keys start with 0..MaxZeros zero bytes, coordinates with up to MaxZeros or 31
MaxZeros == 2
\* a coordinate's or a call argument's first nonzero byte is one of
\* (1 + 127k) % 256, k in 0..MaxFirst
MaxFirst == 2
\* a key's later bytes grow by a step in 0..MaxStep (from 255 they wrap to 0)
MaxStep == 1
\* the y coordinate ends in one of 2..2+MaxY (both parities)
MaxY == 1
\* byte strings handed to the base58 step alone have length 0..MaxData
MaxData == 3

HRP == <<"v", "l", "y">>
WITVER == 0

(***************************************************************************)
(* Bytes, ints, results.                                                   *)
(***************************************************************************)
Ok(v) == [exc |-> "none", val |-> v]
Raise(e) == [exc |-> e, val |-> <<>>]

Reverse(s) == [i \in 1..Len(s) |-> s[Len(s) + 1 - i]]

Repeat(x, k) == [i \in 1..k |-> x]

\* how many elements at the front of s equal x
LeadingCount(s, x) ==
    IF \A i \in 1..Len(s) : s[i] = x THEN Len(s)
    ELSE (CHOOSE i \in 1..Len(s) : s[i] # x /\ \A j \in 1..(i - 1) : s[j] = x) - 1

\* int.from_bytes(b, "big")
int_from_bytes(b) == SubSeq(b, LeadingCount(b, 0) + 1, Len(b))

\* n.to_bytes(length, "big"): OverflowError when n needs more bytes
int_to_bytes(n, length) ==
    IF Len(n) > length THEN Raise("OverflowError")
    ELSE Ok(Repeat(0, length - Len(n)) \o n)

RECURSIVE LongDiv(_, _, _, _)
\* schoolbook division of the digits of n by d; q holds the quotient's digits
\* found so far, rem the remainder of the digits read so far
LongDiv(n, d, rem, q) ==
    IF Len(q) = Len(n) THEN <<int_from_bytes(q), rem>>
    ELSE LET cur == rem * 256 + n[Len(q) + 1]
         IN  LongDiv(n, d, cur % d, Append(q, cur \div d))

\* divmod(n, d) for an int n and a small d: <<quotient, remainder>>
divmod(n, d) == LongDiv(n, d, 0, <<>>)

\* n % 2
IsEven(n) == n = <<>> \/ n[Len(n)] % 2 = 0

(***************************************************************************)
(* hashlib.                                                                *)
(***************************************************************************)
RECURSIVE Absorb(_, _)
\* fold the bytes of b into a 16-bit state; s is [j, st]: the bytes read so
\* far and the state after them
Absorb(b, s) ==
    IF s.j = Len(b) THEN s.st
    ELSE Absorb(b, [j |-> s.j + 1, st |-> (s.st * 263 + b[s.j + 1] + 1) % 65521])

RECURSIVE Squeeze(_, _)
\* size output bytes drawn from the state st
Squeeze(st, size) ==
    IF size = 0 THEN <<>>
    ELSE LET nxt == (st * 75 + 74) % 65537
         IN  <<(nxt \div 3) % 256>> \o Squeeze(nxt, size - 1)

Digest(b, size, tag) == Squeeze(Absorb(b, [j |-> 0, st |-> tag]), size)

sha256(b) == Digest(b, 32, 99)

ripemd160(b) == Digest(b, 20, 160)

(***************************************************************************)
(* to_wif.                                                                 *)
(***************************************************************************)
b58_with_zero ==
    <<"0", "1", "2", "3", "4", "5", "6", "7", "8", "9",
      "A", "B", "C", "D", "E", "F", "G", "H", "J", "K", "L", "M", "N", "P",
      "Q", "R", "S", "T", "U", "V", "W", "X", "Y", "Z",
      "a", "b", "c", "d", "e", "f", "g", "h", "i", "j", "k", "m", "n", "o",
      "p", "q", "r", "s", "t", "u", "v", "w", "x", "y">>

b58 ==
    <<"1", "2", "3", "4", "5", "6", "7", "8", "9",
      "A", "B", "C", "D", "E", "F", "G", "H", "J", "K", "L", "M", "N", "P",
      "Q", "R", "S", "T", "U", "V", "W", "X", "Y", "Z",
      "a", "b", "c", "d", "e", "f", "g", "h", "i", "j", "k", "m", "n", "o",
      "p", "q", "r", "s", "t", "u", "v", "w", "x", "y", "z">>

wif_payload_always_flagged(key, flag) == <<128>> \o key \o <<1>>

\* payload = b"\x80" + privkey_bytes + (b"\x01" if compressed else b"")
wif_payload(key, flag) == <<128>> \o key \o (IF flag THEN <<1>> ELSE <<>>)

\* chk = sha256(sha256(payload))[:4]
wif_checksum(payload) == SubSeq(sha256(sha256(payload)), 1, 4)

\* data = payload + chk
wif_data(key, flag) ==
    LET payload == wif_payload(key, flag)
    IN  payload \o wif_checksum(payload)

RECURSIVE b58_digits(_)
\* while n > 0: n, r = divmod(n, 58); out.append(b58[r])
\* st is the loop's state, [n, out]; the result is out
b58_digits(st) ==
    IF st.n = <<>> THEN st.out
    ELSE LET qr == divmod(st.n, 58)
         IN  b58_digits([n |-> qr[1], out |-> Append(st.out, b58[qr[2] + 1])])

RECURSIVE zero_prefix_no_break(_, _)
zero_prefix_no_break(d, out) ==
    IF d = <<>> THEN out
    ELSE zero_prefix_no_break(Tail(d), IF d[1] = 0 THEN <<"1">> \o out ELSE out)

RECURSIVE zero_prefix(_, _)
\* for c in data: if c == 0: out = b"1" + out  else: break
zero_prefix(d, out) ==
    IF d = <<>> \/ d[1] # 0 THEN out
    ELSE zero_prefix(Tail(d), <<"1">> \o out)

b58encode_unreversed(d) ==
    zero_prefix(d, b58_digits([n |-> int_from_bytes(d), out |-> <<>>]))

\* the base58 step of to_wif: data to the returned string
b58encode(d) ==
    zero_prefix(d, Reverse(b58_digits([n |-> int_from_bytes(d), out |-> <<>>])))

to_wif_length_checked_33(key, flag) ==
    IF Len(key) # 33 THEN Raise("ValueError")
    ELSE Ok(b58encode(wif_data(key, flag)))

to_wif(key, flag) == Ok(b58encode(wif_data(key, flag)))

(***************************************************************************)
(* The bech32 package.                                                     *)
(***************************************************************************)
CHARSET ==
    <<"q", "p", "z", "r", "y", "9", "x", "8", "g", "f", "2", "t", "v", "d",
      "w", "0", "s", "3", "j", "n", "5", "4", "k", "h", "c", "e", "6", "m",
      "u", "a", "7", "l">>

\* ord() of the characters an HRP is written with here
Ord(c) == CASE c = "v" -> 118 [] c = "l" -> 108 [] c = "y" -> 121

\* bit i of a ^ b, in place
XorBit(a, b, i) ==
    IF (a \div (2 ^ i)) % 2 # (b \div (2 ^ i)) % 2 THEN 2 ^ i ELSE 0

\* a ^ b for a and b below 32
Xor5(a, b) ==
    XorBit(a, b, 0) + XorBit(a, b, 1) + XorBit(a, b, 2) + XorBit(a, b, 3)
        + XorBit(a, b, 4)

RECURSIVE Xor(_, _)
\* a ^ b, five bits at a time
Xor(a, b) ==
    IF a = 0 THEN b
    ELSE IF b = 0 THEN a
    ELSE Xor5(a % 32, b % 32) + 32 * Xor(a \div 32, b \div 32)

generator == <<996825010, 642813549, 513874426, 1027748829, 705979059>>

\* generator[i] if ((top >> i) & 1) else 0
polymod_gen(top, i) ==
    IF (top \div (2 ^ i)) % 2 = 1 THEN generator[i + 1] ELSE 0

\* top = chk >> 25; chk = (chk & 0x1ffffff) << 5 ^ value;
\* for i in range(5): chk ^= generator[i] if ((top >> i) & 1) else 0
polymod_step(chk, value) ==
    LET top == chk \div 33554432
        c0 == Xor((chk % 33554432) * 32, value)
        c1 == Xor(c0, polymod_gen(top, 0))
        c2 == Xor(c1, polymod_gen(top, 1))
        c3 == Xor(c2, polymod_gen(top, 2))
        c4 == Xor(c3, polymod_gen(top, 3))
    IN  Xor(c4, polymod_gen(top, 4))

RECURSIVE polymod_loop(_, _)
\* for value in values: ...; st is [k, chk]: the values read so far and chk
polymod_loop(values, st) ==
    IF st.k = Len(values) THEN st.chk
    ELSE polymod_loop(values, [k |-> st.k + 1,
                               chk |-> polymod_step(st.chk, values[st.k + 1])])

\* chk = 1; the loop; return chk
bech32_polymod(values) == polymod_loop(values, [k |-> 0, chk |-> 1])

bech32_hrp_expand(hrp) ==
    [i \in 1..Len(hrp) |-> Ord(hrp[i]) \div 32] \o <<0>>
        \o [i \in 1..Len(hrp) |-> Ord(hrp[i]) % 32]

bech32_create_checksum(hrp, d) ==
    LET values == bech32_hrp_expand(hrp) \o d
        polymod == Xor(bech32_polymod(values \o <<0, 0, 0, 0, 0, 0>>), 1)
    IN  [i \in 1..6 |-> (polymod \div (2 ^ (5 * (6 - i)))) % 32]

bech32_encode(hrp, d) ==
    LET combined == d \o bech32_create_checksum(hrp, d)
    IN  hrp \o <<"1">> \o [i \in 1..Len(combined) |-> CHARSET[combined[i] + 1]]

NoGroups == [none |-> TRUE, ret |-> <<>>]
Groups(r) == [none |-> FALSE, ret |-> r]

RECURSIVE cb_emit(_, _, _, _)
\* while bits >= tobits: bits -= tobits; ret.append((acc >> bits) & maxv)
cb_emit(acc, bits, tobits, out) ==
    IF bits < tobits THEN <<bits, out>>
    ELSE cb_emit(acc, bits - tobits, tobits,
                 Append(out, (acc \div (2 ^ (bits - tobits))) % (2 ^ tobits)))

RECURSIVE cb_loop(_, _, _, _, _)
\* for value in data: ...; then the padding.  st is the loop's state:
\* [i, acc, bits, ret], i the values read so far
cb_loop(d, st, frombits, tobits, pad) ==
    IF st.i = Len(d)
    THEN IF pad
         THEN Groups(IF st.bits # 0
                     THEN Append(st.ret,
                                 (st.acc * (2 ^ (tobits - st.bits))) % (2 ^ tobits))
                     ELSE st.ret)
         ELSE IF st.bits >= frombits
                   \/ (st.acc * (2 ^ (tobits - st.bits))) % (2 ^ tobits) # 0
              THEN NoGroups
              ELSE Groups(st.ret)
    ELSE LET value == d[st.i + 1]
         IN  IF value < 0 \/ value \div (2 ^ frombits) # 0
             THEN NoGroups
             ELSE LET acc == (st.acc * (2 ^ frombits) + value)
                                 % (2 ^ (frombits + tobits - 1))
                      e == cb_emit(acc, st.bits + frombits, tobits, st.ret)
                  IN  cb_loop(d, [i |-> st.i + 1, acc |-> acc, bits |-> e[1],
                                  ret |-> e[2]],
                              frombits, tobits, pad)

\* convertbits(data, frombits, tobits, pad): the groups, or None
convertbits(d, frombits, tobits, pad) ==
    cb_loop(d, [i |-> 0, acc |-> 0, bits |-> 0, ret |-> <<>>], frombits, tobits, pad)

(***************************************************************************)
(* The inputs explored.                                                    *)
(***************************************************************************)
\* len bytes: zeros zero bytes, then first, first + step, ... (modulo 256)
Pattern(len, zeros, first, step) ==
    [i \in 1..len |-> IF i <= zeros THEN 0 ELSE (first + step * (i - zeros - 1)) % 256]

FirstBytes == {(1 + 127 * k) % 256 : k \in 0..MaxFirst}

RECURSIVE BytesLess(_, _)
\* a < b as big-endian numbers of the same length
BytesLess(a, b) ==
    /\ a # <<>>
    /\ \/ a[1] < b[1]
       \/ a[1] = b[1] /\ BytesLess(Tail(a), Tail(b))

\* SECP256k1.order and the field prime of the curve, as 32 bytes
CurveOrder ==
    Repeat(255, 15) \o <<254, 186, 174, 220, 230, 175, 72, 160, 59, 191,
                         210, 94, 140, 208, 54, 65, 65>>
FieldPrime == Repeat(255, 27) \o <<254, 255, 255, 252, 47>>

\* what SigningKey.generate can return: a scalar in 1..order-1, as 32 bytes
PrivateKeys ==
    {k \in {Pattern(32, z, f, s) : z \in 0..MaxZeros, f \in {1, 255}, s \in 0..MaxStep} :
        BytesLess(k, CurveOrder)}

\* coordinates of a point: ints below the field prime, short ones included
XCoordinates ==
    {int_from_bytes(b) :
        b \in {c \in {Pattern(32, z, f, 0) : z \in {0, MaxZeros, 31}, f \in FirstBytes} :
                  BytesLess(c, FieldPrime)}}
YCoordinates == {int_from_bytes(Pattern(32, 0, 2 + k, 0)) : k \in 0..MaxY}

\* arguments of the calls under test: keys of the right and of wrong lengths
KeyLengths == {0, 1, 31, 32, 33}
KeyArguments ==
    {Pattern(n, z, f, s) : n \in KeyLengths, z \in 0..MaxZeros, f \in FirstBytes,
                           s \in 0..MaxStep}
SampleBytes == {0, 1, 57, 58, 255}
DataArguments == UNION {[1..n -> SampleBytes] : n \in 0..MaxData}

(***************************************************************************)
(* main().                                                                 *)
(***************************************************************************)
Line(label, args) == [label |-> label, args |-> args]
Banner == Line("=== VLY KEYGEN (offline) ===", <<>>)
AddressLine(addr) == Line("Public address (VLY Bech32):", <<addr>>)
WifLine(wif) == Line("Private key (WIF, keep SECRET!):", <<wif>>)

compress_little_endian(x, y) ==
    LET xb == int_to_bytes(x, 32)
    IN  IF xb.exc # "none" THEN xb
        ELSE Ok((IF IsEven(y) THEN <<2>> ELSE <<3>>) \o Reverse(xb.val))

\* prefix = b"\x02" if (py % 2 == 0) else b"\x03"
\* pub_compressed = prefix + px.to_bytes(32, "big")
compress(x, y) ==
    LET xb == int_to_bytes(x, 32)
    IN  IF xb.exc # "none" THEN xb
        ELSE Ok((IF IsEven(y) THEN <<2>> ELSE <<3>>) \o xb.val)

hash160_double_sha(pub) == sha256(sha256(pub))

\* ripemd160(sha256(pub_compressed))
hash160(pub) == ripemd160(sha256(pub))

address_data_version_last(h) ==
    LET g == convertbits(h, 8, 5, TRUE)
    IN  IF g.none THEN Raise("TypeError") ELSE Ok(g.ret \o <<WITVER>>)

\* [WITVER] + list(convertbits(h160, 8, 5, True)); list(None) is a TypeError
address_data(h) ==
    LET g == convertbits(h, 8, 5, TRUE)
    IN  IF g.none THEN Raise("TypeError") ELSE Ok(<<WITVER>> \o g.ret)

Crash(e) ==
    /\ pc' = "crashed"
    /\ exc' = e

\* sk = SigningKey.generate(...); vk = ...; priv = sk.to_string(); px, py = ...
Generate ==
    /\ pc = "generate"
    /\ \E k \in PrivateKeys, x \in XCoordinates, y \in YCoordinates :
          /\ priv' = k
          /\ px' = x
          /\ py' = y
    /\ pc' = "compress"
    /\ UNCHANGED <<exc, pub_compressed, h160, data, bech32_addr, stdout, callVars>>

\* the system's random source is not there
GenerateFails ==
    /\ pc = "generate"
    /\ Crash("OSError")
    /\ UNCHANGED <<mainVars, callVars>>

Compress ==
    /\ pc = "compress"
    /\ LET r == compress(px, py)
       IN  IF r.exc = "none"
           THEN /\ pub_compressed' = r.val
                /\ pc' = "hash"
                /\ exc' = exc
           ELSE /\ Crash(r.exc)
                /\ pub_compressed' = pub_compressed
    /\ UNCHANGED <<priv, px, py, h160, data, bech32_addr, stdout, callVars>>

Hash160 ==
    /\ pc = "hash"
    /\ h160' = hash160(pub_compressed)
    /\ pc' = "regroup"
    /\ UNCHANGED <<exc, priv, px, py, pub_compressed, data, bech32_addr, stdout, callVars>>

\* hashlib.new('ripemd160') raises where the build has no RIPEMD-160
Hash160Fails ==
    /\ pc = "hash"
    /\ Crash("ValueError")
    /\ UNCHANGED <<mainVars, callVars>>

Regroup ==
    /\ pc = "regroup"
    /\ LET r == address_data(h160)
       IN  IF r.exc = "none"
           THEN /\ data' = r.val
                /\ pc' = "encode"
                /\ exc' = exc
           ELSE /\ Crash(r.exc)
                /\ data' = data
    /\ UNCHANGED <<priv, px, py, pub_compressed, h160, bech32_addr, stdout, callVars>>

Encode ==
    /\ pc = "encode"
    /\ bech32_addr' = bech32_encode(HRP, data)
    /\ pc' = "print_banner"
    /\ UNCHANGED <<exc, priv, px, py, pub_compressed, h160, data, stdout, callVars>>

PrintBannerSkipped ==
    /\ pc = "print_banner"
    /\ pc' = "print_address"
    /\ UNCHANGED <<exc, mainVars, callVars>>

PrintBanner ==
    /\ pc = "print_banner"
    /\ stdout' = Append(stdout, Banner)
    /\ pc' = "print_address"
    /\ UNCHANGED <<exc, priv, px, py, pub_compressed, h160, data, bech32_addr, callVars>>

PrintAddress ==
    /\ pc = "print_address"
    /\ stdout' = Append(stdout, AddressLine(bech32_addr))
    /\ pc' = "print_wif"
    /\ UNCHANGED <<exc, priv, px, py, pub_compressed, h160, data, bech32_addr, callVars>>

\* print(..., to_wif(priv, True)): the argument is computed, then the line printed
PrintWif ==
    /\ pc = "print_wif"
    /\ LET r == to_wif(priv, TRUE)
       IN  IF r.exc = "none"
           THEN /\ stdout' = Append(stdout, WifLine(r.val))
                /\ pc' = "done"
                /\ exc' = exc
           ELSE /\ Crash(r.exc)
                /\ stdout' = stdout
    /\ UNCHANGED <<priv, px, py, pub_compressed, h160, data, bech32_addr, callVars>>

Init ==
    /\ pc = "generate"
    /\ exc = "none"
    /\ priv = <<>>
    /\ px = <<>>
    /\ py = <<>>
    /\ pub_compressed = <<>>
    /\ h160 = <<>>
    /\ data = <<>>
    /\ bech32_addr = <<>>
    /\ stdout = <<>>
    /\ privkey_bytes = <<>>
    /\ compressed = TRUE
    /\ b58_in = <<>>
    /\ ret = Ok(<<>>)

Next ==
    \/ Generate
    \/ GenerateFails
    \/ Compress
    \/ Hash160
    \/ Hash160Fails
    \/ Regroup
    \/ Encode
    \/ PrintBanner
    \/ PrintAddress
    \/ PrintWif

Spec == Init /\ [][Next]_vars

(***************************************************************************)
(* to_wif and its base58 step, called on their own.                        *)
(***************************************************************************)
CallToWif ==
    /\ pc = "call_to_wif"
    /\ ret' = to_wif(privkey_bytes, compressed)
    /\ pc' = "ret_to_wif"
    /\ UNCHANGED <<exc, mainVars, privkey_bytes, compressed, b58_in>>

CallB58 ==
    /\ pc = "call_b58"
    /\ ret' = Ok(b58encode(b58_in))
    /\ pc' = "ret_b58"
    /\ UNCHANGED <<exc, mainVars, privkey_bytes, compressed, b58_in>>

InitCalls ==
    /\ exc = "none"
    /\ priv = <<>>
    /\ px = <<>>
    /\ py = <<>>
    /\ pub_compressed = <<>>
    /\ h160 = <<>>
    /\ data = <<>>
    /\ bech32_addr = <<>>
    /\ stdout = <<>>
    /\ ret = Ok(<<>>)
    /\ \/ /\ pc = "call_to_wif"
          /\ privkey_bytes \in KeyArguments
          /\ compressed \in BOOLEAN
          /\ b58_in = <<>>
       \/ /\ pc = "call_b58"
          /\ privkey_bytes = <<>>
          /\ compressed = TRUE
          /\ b58_in \in DataArguments

NextCalls == CallToWif \/ CallB58

SpecCalls == InitCalls /\ [][NextCalls]_vars

(***************************************************************************)
(* Decoding, for the round-trip properties: the inverse of the encodings,  *)
(* written against the Base58 alphabet as it is specified, not against     *)
(* the table the code carries.                                             *)
(***************************************************************************)
Alphanumerics ==
    <<"0", "1", "2", "3", "4", "5", "6", "7", "8", "9",
      "A", "B", "C", "D", "E", "F", "G", "H", "I", "J", "K", "L", "M",
      "N", "O", "P", "Q", "R", "S", "T", "U", "V", "W", "X", "Y", "Z",
      "a", "b", "c", "d", "e", "f", "g", "h", "i", "j", "k", "l", "m",
      "n", "o", "p", "q", "r", "s", "t", "u", "v", "w", "x", "y", "z">>

NotAmbiguous(c) == c \notin {"0", "O", "I", "l"}

Base58 == SelectSeq(Alphanumerics, NotAmbiguous)

Base58Chars == {Base58[i] : i \in 1..Len(Base58)}

Base58Value(c) == (CHOOSE i \in 1..Len(Base58) : Base58[i] = c) - 1

RECURSIVE DivideDigits(_, _, _, _)
\* a numeral ds in the given base divided by d; st is [q, rem]: the
\* quotient's digits found so far and the remainder of the digits read
DivideDigits(ds, base, d, st) ==
    IF Len(st.q) = Len(ds) THEN st
    ELSE LET cur == st.rem * base + ds[Len(st.q) + 1]
         IN  DivideDigits(ds, base, d, [q |-> Append(st.q, cur \div d), rem |-> cur % d])

RECURSIVE Base58ToBytes(_)
\* the bytes of the integer a Base58 numeral writes, most significant first:
\* divide by 256 until nothing is left; st is [ds, out], the numeral left
\* (values of its digits, no leading zero) and the bytes found
Base58ToBytes(st) ==
    IF st.ds = <<>> THEN st.out
    ELSE LET r == DivideDigits(st.ds, 58, 256, [q |-> <<>>, rem |-> 0])
         IN  Base58ToBytes([ds |-> SubSeq(r.q, LeadingCount(r.q, 0) + 1, Len(r.q)),
                            out |-> <<r.rem>> \o st.out])

Base58ToInt(str) ==
    LET ds == [i \in 1..Len(str) |-> Base58Value(str[i])]
    IN  Base58ToBytes([ds |-> SubSeq(ds, LeadingCount(ds, 0) + 1, Len(ds)),
                       out |-> <<>>])

\* leading '1' characters back to zero bytes, the other digits to an integer
Base58Decode(str) ==
    LET k == LeadingCount(str, "1")
    IN  Repeat(0, k) \o Base58ToInt(SubSeq(str, k + 1, Len(str)))

Bech32Alphabet ==
    <<"q", "p", "z", "r", "y", "9", "x", "8", "g", "f", "2", "t", "v", "d", "w",
      "0", "s", "3", "j", "n", "5", "4", "k", "h", "c", "e", "6", "m", "u", "a",
      "7", "l">>

Bech32Value(c) == (CHOOSE i \in 1..32 : Bech32Alphabet[i] = c) - 1

\* the groups an address carries after its separator
Bech32Groups(addr) == [i \in 1..(Len(addr) - 4) |-> Bech32Value(addr[i + 4])]

\* an address made of "vly1", the given groups and six characters that verify
IsVlyAddressOf(addr, groups) ==
    /\ SubSeq(addr, 1, 4) = <<"v", "l", "y", "1">>
    /\ Len(addr) = 4 + Len(groups) + 6
    /\ SubSeq(addr, 5, 4 + Len(groups))
           = [i \in 1..Len(groups) |-> Bech32Alphabet[groups[i] + 1]]
    /\ bech32_polymod(<<3, 3, 3, 0, 22, 12, 25>> \o Bech32Groups(addr)) = 1

DoubleShaChecksum(b) == SubSeq(sha256(sha256(b)), 1, 4)

Printed(label) == \E i \in 1..Len(stdout) : stdout[i].label = label

(***************************************************************************)
(* Properties of main(), checked under Spec.                               *)
(***************************************************************************)

\* C1, as stated: a successful run has written exactly two lines, the
\* address line and then the WIF line, and nothing else.
C1_ExactlyTwoLines ==
    pc = "done" =>
        /\ Len(stdout) = 2
        /\ stdout[1].label = "Public address (VLY Bech32):"
        /\ stdout[2].label = "Private key (WIF, keep SECRET!):"

\* C1, amended: a successful run has written exactly three lines: the banner
\* "=== VLY KEYGEN (offline) ===", then the address line carrying the bech32
\* address, then the WIF line carrying to_wif(priv, True); and no run writes
\* anything else.
C1_BannerThenTwoLines ==
    /\ pc = "done" =>
          /\ Len(stdout) = 3
          /\ stdout[1] = [label |-> "=== VLY KEYGEN (offline) ===", args |-> <<>>]
          /\ stdout[2] = [label |-> "Public address (VLY Bech32):",
                          args |-> <<bech32_addr>>]
          /\ stdout[3].label = "Private key (WIF, keep SECRET!):"
          /\ stdout[3].args = <<b58encode(wif_data(priv, TRUE))>>
    /\ Len(stdout) <= 3

C1_Witness == pc = "done" /\ Len(stdout) = 3 /\ exc = "none"

\* C6: the groups main() hands to bech32_encode are the witness version 0
\* followed by the 8-to-5-bit regrouping of RIPEMD-160(SHA-256(pub_compressed)),
\* and decoding them (drop the first group, regroup 5 to 8 bits, strictly)
\* gives version 0 and exactly the 20 bytes of h160.  The address made of
\* them reads "vly", the separator '1', those groups and six checksum
\* characters that verify.
C6_AddressRoundTrip ==
    /\ pc \in {"encode", "print_banner", "print_address", "print_wif", "done"} =>
          /\ h160 = ripemd160(sha256(pub_compressed))
          /\ Len(h160) = 20
          /\ data[1] = 0
          /\ Tail(data) = convertbits(h160, 8, 5, TRUE).ret
          /\ convertbits(Tail(data), 5, 8, FALSE) = [none |-> FALSE, ret |-> h160]
    /\ pc = "print_banner" =>
          /\ Len(data) = 33
          /\ IsVlyAddressOf(bech32_addr, data)

C6_Witness == pc = "print_banner" /\ bech32_addr # <<>> /\ data[1] = 0

\* C7: the compressed key is 33 bytes, starts with 0x02 for an even y and 0x03
\* for an odd y, and goes on with x as 32 big-endian bytes, zero bytes first
\* when x is small; compression never fails.
C7_Compression ==
    /\ pc \in {"hash", "regroup", "encode", "print_banner", "print_address",
               "print_wif", "done"} =>
          /\ Len(pub_compressed) = 33
          /\ pub_compressed[1] = (IF divmod(py, 2)[2] = 0 THEN 2 ELSE 3)
          /\ \A i \in 2..(33 - Len(px)) : pub_compressed[i] = 0
          /\ SubSeq(pub_compressed, 34 - Len(px), 33) = px
    /\ exc # "OverflowError"

C7_Witness ==
    /\ pc = "hash"
    /\ Len(px) = 1
    /\ divmod(py, 2)[2] = 1
    /\ pub_compressed[1] = 3

\* C8: a run that fails has printed neither the address line nor the WIF
\* line, and no run ends with the address line printed and the WIF line not.
C8_NoPartialOutput ==
    /\ pc = "crashed" =>
          /\ ~Printed("Public address (VLY Bech32):")
          /\ ~Printed("Private key (WIF, keep SECRET!):")
    /\ pc \in {"done", "crashed"} /\ Printed("Public address (VLY Bech32):")
          => Printed("Private key (WIF, keep SECRET!):")

C8_Witness == pc = "crashed" /\ exc = "ValueError" /\ pub_compressed # <<>>

\* C10: the regrouping is always given exactly 20 bytes; it succeeds, gives
\* exactly 32 groups, each in 0..31, with no padding bits added (regrouping
\* without padding gives the same), and bech32_encode gets 33 groups.
C10_RegroupingNeverFails ==
    /\ pc = "regroup" =>
          /\ Len(h160) = 20
          /\ ~convertbits(h160, 8, 5, TRUE).none
          /\ Len(convertbits(h160, 8, 5, TRUE).ret) = 32
          /\ \A i \in 1..32 : convertbits(h160, 8, 5, TRUE).ret[i] \in 0..31
          /\ convertbits(h160, 8, 5, FALSE) = convertbits(h160, 8, 5, TRUE)
    /\ pc = "encode" => Len(data) = 33
    /\ exc # "TypeError"

C10_Witness == pc = "encode" /\ Len(data) = 33 /\ Len(h160) = 20

(***************************************************************************)
(* Properties of to_wif, checked under SpecCalls.                          *)
(***************************************************************************)

\* C2, as stated: to_wif fails with ValueError, returning no string, whenever
\* its key is not exactly 32 bytes long.
C2_ValueErrorUnlessThirtyTwoBytes ==
    pc = "ret_to_wif" /\ Len(privkey_bytes) # 32 => ret.exc = "ValueError"

\* C3: for a 32-byte key and either flag, Base58-decoding the returned string
\* gives exactly data = payload + checksum, and its last 4 bytes are the first
\* 4 bytes of SHA-256(SHA-256(.)) of the bytes before them.
C3_WifRoundTrip ==
    pc = "ret_to_wif" /\ Len(privkey_bytes) = 32 =>
        LET decoded == Base58Decode(ret.val)
            n == Len(decoded)
        IN  /\ ret.exc = "none"
            /\ decoded = wif_data(privkey_bytes, compressed)
            /\ n = (IF compressed THEN 38 ELSE 37)
            /\ SubSeq(decoded, n - 3, n) = DoubleShaChecksum(SubSeq(decoded, 1, n - 4))

C3_Witness ==
    /\ pc = "ret_to_wif"
    /\ Len(privkey_bytes) = 32
    /\ privkey_bytes[1] = 0
    /\ Len(ret.val) > 0

\* C4: the base58 step's output begins with exactly k '1' characters, k the
\* number of leading zero bytes of its input; an all-zero input gives '1'
\* repeated len(data) times; and a WIF has as many leading '1' characters as
\* its checksummed payload has leading zero bytes.
C4_LeadingZeros ==
    /\ pc = "ret_b58" =>
          /\ LeadingCount(ret.val, "1") = LeadingCount(b58_in, 0)
          /\ (\A i \in 1..Len(b58_in) : b58_in[i] = 0)
                => ret.val = [i \in 1..Len(b58_in) |-> "1"]
    /\ pc = "ret_to_wif" =>
          LeadingCount(ret.val, "1")
              = LeadingCount(<<128>> \o privkey_bytes, 0)

C4_Witness ==
    /\ pc = "ret_b58"
    /\ Len(b58_in) = 3
    /\ LeadingCount(b58_in, 0) = 2
    /\ LeadingCount(ret.val, "1") = 2
    /\ Len(ret.val) > 2

\* C5: for a 32-byte key, compressed=False encodes 0x80 + key + checksum, 37
\* bytes with no 0x01 after the key, one byte shorter than the 38 bytes
\* 0x80 + key + 0x01 + checksum that compressed=True encodes, each checksum
\* taken over its own payload.
C5_CompressionFlag ==
    pc = "ret_to_wif" /\ Len(privkey_bytes) = 32 =>
        LET plain == <<128>> \o privkey_bytes
            flagged == <<128>> \o privkey_bytes \o <<1>>
            encoded == Base58Decode(ret.val)
        IN  /\ ~compressed => /\ encoded = plain \o DoubleShaChecksum(plain)
                              /\ Len(encoded) = 37
            /\ compressed => /\ encoded = flagged \o DoubleShaChecksum(flagged)
                             /\ Len(encoded) = 38
            /\ Len(wif_data(privkey_bytes, FALSE)) + 1
                   = Len(wif_data(privkey_bytes, TRUE))

C5_Witness ==
    /\ pc = "ret_to_wif"
    /\ Len(privkey_bytes) = 32
    /\ ~compressed
    /\ Len(Base58Decode(ret.val)) = 37

\* C9: for a 32-byte key, to_wif(key, True) returns 51 or 52 characters, all
\* of the Base58 alphabet (none of 0, O, I, l).
C9_WifLength ==
    pc = "ret_to_wif" /\ Len(privkey_bytes) = 32 /\ compressed =>
        /\ Len(ret.val) \in {51, 52}
        /\ \A i \in 1..Len(ret.val) : ret.val[i] \in Base58Chars

C9_Witness ==
    /\ pc = "ret_to_wif"
    /\ Len(privkey_bytes) = 32
    /\ compressed
    /\ Len(ret.val) = 52

====
